---- MODULE Spec2Model ----
(***************************************************************************)
(* Model of Dijkstras_algorithm_python.py: a directed task graph is built  *)
(* from a task list and an edge list, then find_critical_path, perform_bfs *)
(* and analyze_centrality are run on it, in that order, at module level.   *)
(*                                                                         *)
(* A graph object is a record                                              *)
(*   id       : identity of the object (G.copy() makes a new one)          *)
(*   nodes    : the tasks in insertion order                               *)
(*   duration : the 'duration' node attribute, task -> integer             *)
(*   adj      : task -> successors in insertion order (G._adj)             *)
(*   weight   : the 'weight' edge attribute, <<u, v>> -> integer           *)
(***************************************************************************)
EXTENDS Integers, Sequences, FiniteSets, TLC

VARIABLES
    G,                      \* the module-level graph
    pc,                     \* position of the script
    calls,                  \* number of find_critical_path calls made
    cp_outcome,             \* "none", "ok" or the exception the call raised
    critical_path,          \* the path returned by the last call
    total_duration,         \* the total returned by the last call
    bfs_path,               \* the list returned by perform_bfs
    degree_centrality,      \* task -> [num, den] of analyze_centrality
    betweenness_centrality  \* task -> [num, den] of analyze_centrality

vars == <<G, pc, calls, cp_outcome, critical_path, total_duration,
          bfs_path, degree_centrality, betweenness_centrality>>

----------------------------------------------------------------------------
(* Bounds of the explored inputs *)

\* largest task duration of the small inputs
MaxDur == 2
\* largest number of edges in the edge list of the small inputs
MaxEdges == 4
\* largest number of tasks of a linear chain input
MaxChain == 5
\* largest number of successive find_critical_path calls in SpecRepeat
MaxCalls == 2

----------------------------------------------------------------------------
(* Sequence and set helpers *)

Range(s) == {s[i] : i \in 1..Len(s)}

RECURSIVE SumSeq(_)
SumSeq(s) == IF s = <<>> THEN 0 ELSE Head(s) + SumSeq(Tail(s))

RECURSIVE SumFn(_, _)
SumFn(f, S) ==
    IF S = {} THEN 0
    ELSE LET x == CHOOSE y \in S : TRUE IN f[x] + SumFn(f, S \ {x})

RECURSIVE MaxOf(_)
MaxOf(S) ==
    LET x == CHOOSE y \in S : TRUE
    IN IF S = {x} THEN x
       ELSE LET m == MaxOf(S \ {x}) IN IF x > m THEN x ELSE m

RECURSIVE Gcd(_, _)
Gcd(a, b) == IF b = 0 THEN a ELSE Gcd(b, a % b)

RECURSIVE LcmOf(_)
LcmOf(S) ==
    IF S = {} THEN 1
    ELSE LET x == CHOOSE y \in S : TRUE
             l == LcmOf(S \ {x})
         IN (x * l) \div Gcd(x, l)

----------------------------------------------------------------------------
(* The graph object (networkx.DiGraph as the script uses it) *)

\* nx.DiGraph()
EmptyGraph == [id |-> 1, nodes |-> <<>>, duration |-> <<>>, adj |-> <<>>,
               weight |-> <<>>]

NodeSet(g) == Range(g.nodes)

EdgeSet(g) == {e \in NodeSet(g) \X NodeSet(g) : e[2] \in Range(g.adj[e[1]])}

\* G.add_node(task, duration=duration): a new task is appended, a known one
\* has its attribute overwritten
add_node(g, task, duration) ==
    IF task \in NodeSet(g)
    THEN [g EXCEPT !.duration = (task :> duration) @@ @]
    ELSE [g EXCEPT !.nodes = Append(@, task),
                   !.duration = (task :> duration) @@ @,
                   !.adj = (task :> <<>>) @@ @]

\* a node that add_edge creates: it has no 'duration' attribute
add_bare_node(g, task) ==
    IF task \in NodeSet(g) THEN g
    ELSE [g EXCEPT !.nodes = Append(@, task), !.adj = (task :> <<>>) @@ @]

\* G.add_edge(u, v), one element of G.add_edges_from(edges)
add_edge(g, u, v) ==
    LET g2 == add_bare_node(add_bare_node(g, u), v)
    IN IF v \in Range(g2.adj[u]) THEN g2
       ELSE [g2 EXCEPT !.adj[u] = Append(@, v)]

\* for task, duration in tasks: G.add_node(task, duration=duration)
RECURSIVE add_nodes(_, _)
add_nodes(g, tl) ==
    IF Len(tl) = 0 THEN g
    ELSE LET n == Len(tl)
         IN add_node(add_nodes(g, SubSeq(tl, 1, n - 1)), tl[n][1], tl[n][2])

\* G.add_edges_from(edges)
RECURSIVE add_edges_from(_, _)
add_edges_from(g, el) ==
    IF Len(el) = 0 THEN g
    ELSE LET n == Len(el)
         IN add_edge(add_edges_from(g, SubSeq(el, 1, n - 1)), el[n][1], el[n][2])

\* faulty variant of copy: the same object, no copy made
copy_alias(g) == g
\* G.copy(): a new graph object holding copies of the attribute dicts
copy(g) == [g EXCEPT !.id = @ + 1]

----------------------------------------------------------------------------
(* The literal dataset of the script *)

tasks == <<
    <<"Start", 0>>,
    <<"Create Work Order", 2>>,
    <<"Process Rubber Blending", 10>>,
    <<"Mill Rubber", 8>>,
    <<"Calendar Rubber Sheets", 14>>,
    <<"Sandblast Parts", 10>>,
    <<"Wash Parts for Chemical Treatment", 2>>,
    <<"Chemical Treatment Group 1", 6>>,
    <<"Chemical Treatment Group 2", 10>>,
    <<"Chemical Treatment Group 3", 4>>,
    <<"Spray Treatment", 8>>,
    <<"Assemble Components for Injection Molding", 8>>,
    <<"Clean Outer & Inner Members", 4>>,
    <<"Special Adhesive Treatment", 12>>,
    <<"Special Sandblast", 6>>,
    <<"Wash Parts OM & IM", 2>>,
    <<"Injection Molding Operation", 18>>,
    <<"Bond Testing", 6>>,
    <<"Paint & Finishing", 14>>,
    <<"Final Inspection", 6>>,
    <<"Packaging", 6>>,
    <<"Shipping", 2>>,
    <<"End", 0>> >>

edges == <<
    <<"Start", "Create Work Order">>,
    <<"Create Work Order", "Process Rubber Blending">>,
    <<"Create Work Order", "Sandblast Parts">>,
    <<"Create Work Order", "Clean Outer & Inner Members">>,
    <<"Process Rubber Blending", "Mill Rubber">>,
    <<"Mill Rubber", "Calendar Rubber Sheets">>,
    <<"Calendar Rubber Sheets", "Assemble Components for Injection Molding">>,
    <<"Sandblast Parts", "Wash Parts for Chemical Treatment">>,
    <<"Wash Parts for Chemical Treatment", "Chemical Treatment Group 1">>,
    <<"Wash Parts for Chemical Treatment", "Chemical Treatment Group 2">>,
    <<"Wash Parts for Chemical Treatment", "Chemical Treatment Group 3">>,
    <<"Chemical Treatment Group 1", "Spray Treatment">>,
    <<"Chemical Treatment Group 2", "Spray Treatment">>,
    <<"Chemical Treatment Group 3", "Spray Treatment">>,
    <<"Spray Treatment", "Assemble Components for Injection Molding">>,
    <<"Clean Outer & Inner Members", "Special Adhesive Treatment">>,
    <<"Special Adhesive Treatment", "Special Sandblast">>,
    <<"Special Sandblast", "Wash Parts OM & IM">>,
    <<"Wash Parts OM & IM", "Assemble Components for Injection Molding">>,
    <<"Assemble Components for Injection Molding", "Injection Molding Operation">>,
    <<"Injection Molding Operation", "Bond Testing">>,
    <<"Bond Testing", "Paint & Finishing">>,
    <<"Paint & Finishing", "Final Inspection">>,
    <<"Final Inspection", "Packaging">>,
    <<"Packaging", "Shipping">>,
    <<"Shipping", "End">> >>

----------------------------------------------------------------------------
(* nx.dijkstra_path(G_neg, 'Start', 'End', weight='weight')                *)
(* The search state is the record of the locals of _dijkstra_multisource:  *)
(* dist (final distances), seen, paths, fringe (the heap, a set of         *)
(* <<distance, counter, node>>), c (the counter) and whether it raised.    *)

\* the weight function of the search: data.get('weight', 1)
Weight(g, u, v) ==
    IF <<u, v>> \in DOMAIN g.weight THEN g.weight[<<u, v>>] ELSE 1

\* heappop: the least <<distance, counter, node>> of the heap
HeapMin(fringe) ==
    CHOOSE t \in fringe :
        \A o \in fringe : t[1] < o[1] \/ (t[1] = o[1] /\ t[2] <= o[2])

\* faulty variant of InitPaths: the source is left out of its own path
InitPaths_empty(source) == (source :> <<>>)
\* paths = {source: [source]}
InitPaths(source) == (source :> <<source>>)

\* faulty variant of ExtendPath: v is appended once more before u
ExtendPath_twice(p, v, u) == Append(Append(p, v), u)
\* paths[u] = paths[v] + [u], p being paths[v]
ExtendPath(p, v, u) == Append(p, u)

\* for u, e in G_succ[v].items(): the relaxation of the edges leaving v,
\* from the i-th successor on
RECURSIVE Relax(_, _, _, _)
Relax(g, st, v, i) ==
    IF i > Len(g.adj[v]) \/ st.raised THEN st
    ELSE LET u == g.adj[v][i]
             vu_dist == st.dist[v] + Weight(g, v, u)
         IN IF u \in DOMAIN st.dist
            THEN IF vu_dist < st.dist[u]
                 THEN [st EXCEPT !.raised = TRUE]
                 ELSE Relax(g, st, v, i + 1)
            ELSE IF u \notin DOMAIN st.seen \/ vu_dist < st.seen[u]
                 THEN Relax(g,
                            [st EXCEPT
                               !.seen = (u :> vu_dist) @@ @,
                               !.fringe = @ \cup {<<vu_dist, st.c, u>>},
                               !.c = @ + 1,
                               !.paths = (u :> ExtendPath(st.paths[v], v, u)) @@ @],
                            v, i + 1)
                 ELSE Relax(g, st, v, i + 1)

\* while fringe: pop, skip a node already searched, finalise, stop at target
RECURSIVE DijkstraLoop(_, _, _)
DijkstraLoop(g, st, target) ==
    IF st.fringe = {} \/ st.raised THEN st
    ELSE LET t == HeapMin(st.fringe)
             v == t[3]
             st1 == [st EXCEPT !.fringe = @ \ {t}]
         IN IF v \in DOMAIN st1.dist
            THEN DijkstraLoop(g, st1, target)
            ELSE LET st2 == [st1 EXCEPT !.dist = (v :> t[1]) @@ @]
                 IN IF v = target THEN st2
                    ELSE DijkstraLoop(g, Relax(g, st2, v, 1), target)

\* _dijkstra_multisource(G, {source}, weight, paths=paths, target=target)
dijkstra_multisource(g, source, target) ==
    DijkstraLoop(g,
                 [dist |-> <<>>, seen |-> (source :> 0),
                  paths |-> InitPaths(source),
                  fringe |-> {<<0, 0, source>>}, c |-> 1, raised |-> FALSE],
                 target)

\* nx.dijkstra_path(G, source, target, weight='weight'):
\* [outcome, path] where outcome is "ok" or the exception raised
dijkstra_path(g, source, target) ==
    IF source \notin NodeSet(g)
    THEN [outcome |-> "NodeNotFound", path |-> <<>>]
    ELSE IF target = source
    THEN [outcome |-> "ok", path |-> <<target>>]
    ELSE LET st == dijkstra_multisource(g, source, target)
         IN IF st.raised THEN [outcome |-> "ValueError", path |-> <<>>]
            ELSE IF target \notin DOMAIN st.dist
            THEN [outcome |-> "NetworkXNoPath", path |-> <<>>]
            ELSE [outcome |-> "ok", path |-> st.paths[target]]

----------------------------------------------------------------------------
(* find_critical_path(G) *)

\* faulty variant of NegatedWeight: the duration is not negated
NegatedWeight_plain(g, u) == g.duration[u]
\* data['weight'] = -G.nodes[u]['duration']
NegatedWeight(g, u) == -g.duration[u]

\* total_duration = sum(G.nodes[task]['duration'] for task in path)
PathDuration(g, path) == SumSeq([i \in 1..Len(path) |-> g.duration[path[i]]])

\* the call: [G (the caller's graph after the call), outcome, path, total]
find_critical_path(g) ==
    LET G_neg0 == copy(g)
        missing == {e \in EdgeSet(g) : e[1] \notin DOMAIN g.duration}
        G_neg == [G_neg0 EXCEPT
                    !.weight = [e \in EdgeSet(G_neg0) |-> NegatedWeight(g, e[1])]]
        \* the writes reach the caller's graph only if G_neg is that object
        after == IF G_neg.id = g.id THEN G_neg ELSE g
        found == dijkstra_path(G_neg, "Start", "End")
    IN IF missing # {}
       THEN [G |-> g, outcome |-> "KeyError", path |-> <<>>, total |-> 0]
       ELSE IF found.outcome # "ok"
       THEN [G |-> after, outcome |-> found.outcome, path |-> <<>>, total |-> 0]
       ELSE IF \E i \in 1..Len(found.path) : found.path[i] \notin DOMAIN g.duration
       THEN [G |-> after, outcome |-> "KeyError", path |-> <<>>, total |-> 0]
       ELSE [G |-> after, outcome |-> "ok", path |-> found.path,
             total |-> PathDuration(g, found.path)]

----------------------------------------------------------------------------
(* perform_bfs(G, start): list(nx.bfs_edges(G, start)) *)

\* faulty variant of BfsInitVisited: the source is not marked as visited
BfsInitVisited_none(source) == {}
\* visited = {source}
BfsInitVisited(source) == {source}

\* for child in children: if child not in visited: yield parent, child;
\* visited.add(child); queue.append(child) -- from the i-th child of parent on
RECURSIVE BfsChildren(_, _, _, _)
BfsChildren(g, st, parent, i) ==
    IF i > Len(g.adj[parent]) THEN st
    ELSE LET child == g.adj[parent][i]
         IN IF child \in st.visited THEN BfsChildren(g, st, parent, i + 1)
            ELSE BfsChildren(g,
                             [visited |-> st.visited \cup {child},
                              queue |-> Append(st.queue, child),
                              out |-> Append(st.out, <<parent, child>>)],
                             parent, i + 1)

\* while queue: scan the children of queue[0], then queue.popleft()
RECURSIVE BfsLoop(_, _)
BfsLoop(g, st) ==
    IF st.queue = <<>> THEN st.out
    ELSE LET st1 == BfsChildren(g, st, Head(st.queue), 1)
         IN BfsLoop(g, [st1 EXCEPT !.queue = Tail(@)])

bfs_edges(g, source) ==
    BfsLoop(g, [visited |-> BfsInitVisited(source), queue |-> <<source>>,
                out |-> <<>>])

perform_bfs(g, start) == bfs_edges(g, start)

----------------------------------------------------------------------------
(* analyze_centrality(G): nx.degree_centrality and                         *)
(* nx.betweenness_centrality; a score is the fraction num / den            *)

\* faulty variant of Neighbors: the edge directions are ignored
Neighbors_undirected(g, v) ==
    Range(g.adj[v]) \cup {u \in NodeSet(g) : v \in Range(g.adj[u])}
\* the neighbours a shortest path of the directed graph may step to
Neighbors(g, v) == Range(g.adj[v])

\* distances (in edges) from the nodes of D: breadth-first layers
RECURSIVE BfsLayers(_, _, _, _)
BfsLayers(g, frontier, D, d) ==
    IF frontier = {} THEN D
    ELSE LET D2 == [v \in frontier |-> d] @@ D
             next == UNION {Neighbors(g, v) : v \in frontier} \ DOMAIN D2
         IN BfsLayers(g, next, D2, d + 1)

\* node -> distance from s, for the nodes reachable from s
BfsDist(g, s) == BfsLayers(g, {s}, <<>>, 0)

\* number of shortest paths from s to t, D being BfsDist(g, s)
RECURSIVE NumShortest(_, _, _, _)
NumShortest(g, D, s, t) ==
    IF t = s THEN 1
    ELSE LET P == {u \in DOMAIN D : D[u] = D[t] - 1 /\ t \in Neighbors(g, u)}
         IN SumFn([u \in P |-> NumShortest(g, D, s, u)], P)

\* degree_centrality = nx.degree_centrality(G): (in + out degree) / (n - 1)
degree_centrality_of(g) ==
    LET n == Len(g.nodes)
        deg(v) == Len(g.adj[v]) + Cardinality({u \in NodeSet(g) : v \in Range(g.adj[u])})
    IN [v \in NodeSet(g) |->
          IF n <= 1 THEN [num |-> 1, den |-> 1]
          ELSE [num |-> deg(v), den |-> n - 1]]

\* betweenness_centrality = nx.betweenness_centrality(G): for task v the sum
\* over the ordered pairs s, t (s, t, v distinct, t reachable from s) of the
\* fraction of shortest s-t paths through v, scaled by 1 / ((n-1)(n-2)) when
\* n > 2.  L is a common denominator of the fractions.
betweenness_centrality_of(g) ==
    LET N == NodeSet(g)
        n == Len(g.nodes)
        D == [s \in N |-> BfsDist(g, s)]
        sigma == [s \in N |-> [t \in DOMAIN D[s] |-> NumShortest(g, D[s], s, t)]]
        L == LcmOf(UNION {{sigma[s][t] : t \in DOMAIN D[s]} : s \in N})
        through(s, t, v) ==
            IF v \in DOMAIN D[s] /\ t \in DOMAIN D[v] /\ D[s][v] + D[v][t] = D[s][t]
            THEN sigma[s][v] * sigma[v][t] ELSE 0
        targets(s, v) == {t \in DOMAIN D[s] : t # s /\ t # v}
        from(s, v) == SumFn([t \in targets(s, v) |->
                               (L * through(s, t, v)) \div sigma[s][t]],
                            targets(s, v))
        num(v) == SumFn([s \in N \ {v} |-> from(s, v)], N \ {v})
        den == IF n > 2 THEN L * (n - 1) * (n - 2) ELSE L
    IN [v \in N |-> [num |-> num(v), den |-> den]]

----------------------------------------------------------------------------
(* The script *)

\* the task names of the small inputs and of the chains
SmallTasks == <<"A", "B">>
ChainTasks == <<"A", "B", "C", "D", "E", "F">>

\* a task list Start, internal tasks with the given durations, End
TaskList(names, durs) ==
    <<<<"Start", 0>>>> \o [i \in 1..Len(durs) |-> <<names[i], durs[i]>>]
                        \o <<<<"End", 0>>>>

\* the edge list of the linear chain over a task list
ChainEdges(tl) == [i \in 1..(Len(tl) - 1) |-> <<tl[i][1], tl[i + 1][1]>>]

\* faulty variant of AfterCriticalPath: the script goes on after an exception
AfterCriticalPath_caught(outcome) == "bfs"
\* an uncaught exception of the call on line 100 ends the script
AfterCriticalPath(outcome) == IF outcome = "ok" THEN "bfs" ELSE "aborted"

Init ==
    /\ G = EmptyGraph
    /\ pc = "start"
    /\ calls = 0
    /\ cp_outcome = "none"
    /\ critical_path = <<>>
    /\ total_duration = 0
    /\ bfs_path = <<>>
    /\ degree_centrality = <<>>
    /\ betweenness_centrality = <<>>

\* lines 51-52 on a small task list
AddNodes ==
    /\ pc = "start"
    /\ \E durs \in [1..Len(SmallTasks) -> 0..MaxDur] :
          G' = add_nodes(G, TaskList(SmallTasks, durs))
    /\ pc' = "add_edges"
    /\ UNCHANGED <<calls, cp_outcome, critical_path, total_duration, bfs_path,
                   degree_centrality, betweenness_centrality>>

\* line 84, one edge of the edge list at a time; the small edge lists hold
\* edges between two different tasks of the task list, none of them twice
AddEdge ==
    /\ pc = "add_edges"
    /\ Cardinality(EdgeSet(G)) < MaxEdges
    /\ \E u \in NodeSet(G), v \in NodeSet(G) :
          /\ u # v
          /\ <<u, v>> \notin EdgeSet(G)
          /\ G' = add_edge(G, u, v)
    /\ UNCHANGED <<pc, calls, cp_outcome, critical_path, total_duration, bfs_path,
                   degree_centrality, betweenness_centrality>>

\* lines 51-52 and 84 on the literal task list and edge list, one
\* add_node or add_edge at a time: first the tasks, then the edges
BuildLiteral ==
    /\ pc \in {"start", "literal"}
    /\ LET i == Len(G.nodes) + 1
           j == Cardinality(EdgeSet(G)) + 1
       IN IF i <= Len(tasks)
          THEN /\ G' = add_node(G, tasks[i][1], tasks[i][2])
               /\ pc' = "literal"
          ELSE /\ G' = add_edge(G, edges[j][1], edges[j][2])
               /\ pc' = IF j = Len(edges) THEN "built" ELSE "literal"
    /\ UNCHANGED <<calls, cp_outcome, critical_path, total_duration, bfs_path,
                   degree_centrality, betweenness_centrality>>

\* lines 51-84 on a linear chain of n tasks
BuildChain ==
    /\ pc = "start"
    /\ \E n \in 3..MaxChain, d \in 0..MaxDur :
          LET tl == TaskList(ChainTasks, [i \in 1..(n - 2) |-> d])
          IN G' = add_edges_from(add_nodes(G, tl), ChainEdges(tl))
    /\ pc' = "built"
    /\ UNCHANGED <<calls, cp_outcome, critical_path, total_duration, bfs_path,
                   degree_centrality, betweenness_centrality>>

\* line 100: critical_path, total_duration = find_critical_path(G)
FindCriticalPath ==
    /\ pc \in {"add_edges", "built"}
    /\ LET r == find_critical_path(G)
       IN /\ G' = r.G
          /\ cp_outcome' = r.outcome
          /\ critical_path' = r.path
          /\ total_duration' = r.total
          /\ pc' = AfterCriticalPath(r.outcome)
    /\ calls' = calls + 1
    /\ UNCHANGED <<bfs_path, degree_centrality, betweenness_centrality>>

\* line 131: perform_bfs(G)
PerformBfs ==
    /\ pc = "bfs"
    /\ bfs_path' = perform_bfs(G, "Start")
    /\ pc' = "centrality"
    /\ UNCHANGED <<G, calls, cp_outcome, critical_path, total_duration,
                   degree_centrality, betweenness_centrality>>

\* line 132: analyze_centrality(G)
AnalyzeCentrality ==
    /\ pc = "centrality"
    /\ degree_centrality' = degree_centrality_of(G)
    /\ betweenness_centrality' = betweenness_centrality_of(G)
    /\ pc' = "done"
    /\ UNCHANGED <<G, calls, cp_outcome, critical_path, total_duration, bfs_path>>

Next ==
    \/ AddNodes
    \/ AddEdge
    \/ BuildLiteral
    \/ BuildChain
    \/ FindCriticalPath
    \/ PerformBfs
    \/ AnalyzeCentrality

Spec == Init /\ [][Next]_vars

\* find_critical_path(G) called again on the graph as the last call left it
CallFindCriticalPath ==
    /\ pc \in {"add_edges", "built", "called"}
    /\ calls < MaxCalls
    /\ LET r == find_critical_path(G)
       IN /\ G' = r.G
          /\ cp_outcome' = r.outcome
          /\ critical_path' = r.path
          /\ total_duration' = r.total
    /\ pc' = "called"
    /\ calls' = calls + 1
    /\ UNCHANGED <<bfs_path, degree_centrality, betweenness_centrality>>

NextRepeat ==
    \/ AddNodes
    \/ AddEdge
    \/ BuildLiteral
    \/ BuildChain
    \/ CallFindCriticalPath

SpecRepeat == Init /\ [][NextRepeat]_vars

----------------------------------------------------------------------------
(* Graph notions the properties are stated with *)

Succ(g, v) == Range(g.adj[v])

\* the nodes reachable from the nodes of frontier, seen being reached already
RECURSIVE ReachFrom(_, _, _)
ReachFrom(g, frontier, seen) ==
    IF frontier = {} THEN seen
    ELSE ReachFrom(g, UNION {Succ(g, v) : v \in frontier} \ (seen \cup frontier),
                   seen \cup frontier)

\* the nodes reachable from s by directed edges, s included
Reachable(g, s) == ReachFrom(g, {s}, {})

HasCycle(g) == \E v \in NodeSet(g) : \E u \in Succ(g, v) : v \in Reachable(g, u)

\* a valid task graph: acyclic, durations >= 0, Start the only task without
\* incoming edges, End the only one without outgoing edges, every task
\* reachable from Start and reaching End
ValidTaskGraph(g) ==
    /\ {"Start", "End"} \subseteq NodeSet(g)
    /\ DOMAIN g.duration = NodeSet(g)
    /\ \A v \in NodeSet(g) : g.duration[v] >= 0
    /\ ~HasCycle(g)
    /\ {v \in NodeSet(g) : \A u \in NodeSet(g) : v \notin Succ(g, u)} = {"Start"}
    /\ {v \in NodeSet(g) : Succ(g, v) = {}} = {"End"}
    /\ Reachable(g, "Start") = NodeSet(g)
    /\ \A v \in NodeSet(g) : "End" \in Reachable(g, v)

\* in a valid task graph: the largest sum of durations over the paths from v
\* to End (every maximal path from v ends at End)
RECURSIVE LongestFrom(_, _)
LongestFrom(g, v) ==
    IF Succ(g, v) = {} THEN g.duration[v]
    ELSE g.duration[v] + MaxOf({LongestFrom(g, u) : u \in Succ(g, v)})

\* the graph is the literal dataset
IsLiteral(g) ==
    /\ g.nodes = [i \in 1..Len(tasks) |-> tasks[i][1]]
    /\ \A i \in 1..Len(tasks) : g.duration[tasks[i][1]] = tasks[i][2]
    /\ EdgeSet(g) = Range(edges)

\* the graph is one directed linear chain of at least 3 tasks
IsChain(g) ==
    /\ Len(g.nodes) >= 3
    /\ Cardinality(EdgeSet(g)) = Len(g.nodes) - 1
    /\ \A v \in NodeSet(g) : Len(g.adj[v]) <= 1
    /\ \A v \in NodeSet(g) : Cardinality({u \in NodeSet(g) : v \in Succ(g, u)}) <= 1
    /\ ~HasCycle(g)

\* 0-based position of v in a chain: the number of tasks before it
ChainPos(g, v) == Cardinality({u \in NodeSet(g) : v \in Reachable(g, u)}) - 1

ChainInternal(g) == {v \in NodeSet(g) : ChainPos(g, v) \notin {0, Len(g.nodes) - 1}}

ChainEnds(g) == NodeSet(g) \ ChainInternal(g)

\* comparison of two scores num / den (den > 0)
ScoreLess(a, b) == a.num * b.den < b.num * a.den

ScoreEq(a, b) == a.num * b.den = b.num * a.den

\* find_critical_path has been called and has returned a path
Returned == calls >= 1 /\ cp_outcome = "ok"

----------------------------------------------------------------------------
(* The claims *)

\* C1: for every valid task graph find_critical_path returns a total duration
\* equal to the maximum, over all Start-to-End paths, of the sum of the task
\* durations along the path.
C1_TotalIsMaximum ==
    (calls >= 1 /\ ValidTaskGraph(G)) =>
        (cp_outcome = "ok" /\ total_duration = LongestFrom(G, "Start"))

\* C2: on the literal task list and edge list find_critical_path returns a
\* total of exactly 94 and a path that holds 'Calendar Rubber Sheets',
\* 'Injection Molding Operation' and 'Paint & Finishing' in that order.
C2_Literal94 ==
    (calls >= 1 /\ IsLiteral(G)) =>
        /\ cp_outcome = "ok"
        /\ total_duration = 94
        /\ \E i, j, k \in 1..Len(critical_path) :
              /\ i < j /\ j < k
              /\ critical_path[i] = "Calendar Rubber Sheets"
              /\ critical_path[j] = "Injection Molding Operation"
              /\ critical_path[k] = "Paint & Finishing"

C2_Witness == calls >= 1 /\ IsLiteral(G) /\ total_duration = 94

\* C3: on a graph that contains a directed cycle find_critical_path fails
\* with a cycle error; it returns no path and total for such a graph.
C3_CycleError ==
    (calls >= 1 /\ HasCycle(G)) => cp_outcome = "CycleError"

\* C4: on a graph in which End is not reachable from Start
\* find_critical_path fails with the no-path error and with no other outcome.
C4_NoPathError ==
    (calls >= 1 /\ "End" \notin Reachable(G, "Start")) =>
        cp_outcome = "NetworkXNoPath"

\* C5: whenever find_critical_path returns a path, its first element is
\* 'Start' and its last element is 'End'.
C5_StartToEnd ==
    Returned =>
        /\ Len(critical_path) >= 1
        /\ critical_path[1] = "Start"
        /\ critical_path[Len(critical_path)] = "End"

C5_Witness == Returned /\ Len(critical_path) >= 3

\* C6: whenever find_critical_path returns a path, no task occurs more than
\* once in it, so the total counts each task's duration at most once: it is
\* the sum of the durations over the set of tasks of the path.
C6_EachTaskOnce ==
    Returned =>
        /\ \A i, j \in 1..Len(critical_path) :
              critical_path[i] = critical_path[j] => i = j
        /\ total_duration = SumFn(G.duration, Range(critical_path))

\* a returned path through a task that lies on several Start-to-End paths
C6_Witness ==
    /\ Returned
    /\ ~HasCycle(G)
    /\ \E v \in Range(critical_path) \ {"Start", "End"} :
          /\ G.duration[v] > 0
          /\ Cardinality({u \in Succ(G, v) : "End" \in Reachable(G, u)}) >= 2

\* C7 as stated: once find_critical_path has been called, the run ends with
\* the traversal and the ranking computed, whether or not the call succeeded.
C7_RunDespiteFailure ==
    (calls >= 1 /\ pc \notin {"bfs", "centrality"}) =>
        /\ pc = "done"
        /\ DOMAIN degree_centrality = NodeSet(G)
        /\ DOMAIN betweenness_centrality = NodeSet(G)

\* C7 as amended: the traversal and the ranking run only after
\* find_critical_path has returned, and are then computed from G alone; when
\* the call raises, the script ends with neither of them run.
C7_RunOnlyAfterSuccess ==
    /\ pc = "done" =>
          /\ cp_outcome = "ok"
          /\ bfs_path = perform_bfs(G, "Start")
          /\ degree_centrality = degree_centrality_of(G)
          /\ betweenness_centrality = betweenness_centrality_of(G)
    /\ (calls >= 1 /\ cp_outcome # "ok") =>
          /\ pc = "aborted"
          /\ bfs_path = <<>>
          /\ degree_centrality = <<>>
          /\ betweenness_centrality = <<>>

C7_Witness ==
    /\ pc = "aborted"
    /\ cp_outcome \in {"NetworkXNoPath", "ValueError"}
    /\ EdgeSet(G) # {}

\* C8: a call of find_critical_path leaves G as it was, and a call that
\* follows another call on the same graph returns the same path and total
\* (or raises the same exception).
C8_Idempotent ==
    [][calls' = calls + 1 =>
          /\ G' = G
          /\ calls >= 1 =>
                /\ cp_outcome' = cp_outcome
                /\ critical_path' = critical_path
                /\ total_duration' = total_duration]_vars

C8_Witness == calls = 2 /\ cp_outcome = "ok" /\ Len(critical_path) >= 4

\* C9 as stated: in a linear chain of N >= 3 tasks every internal task has a
\* strictly higher betweenness centrality than each endpoint, and all
\* internal tasks have the same score.
C9_InternalTied ==
    (pc = "done" /\ IsChain(G)) =>
        /\ \A v \in ChainInternal(G), e \in ChainEnds(G) :
              ScoreLess(betweenness_centrality[e], betweenness_centrality[v])
        /\ \A v, w \in ChainInternal(G) :
              ScoreEq(betweenness_centrality[v], betweenness_centrality[w])

\* C9 as amended: in a linear chain of N >= 3 tasks the task at 0-based
\* position i has betweenness centrality i(N-1-i) / ((N-1)(N-2)): every
\* internal task scores strictly higher than each endpoint (which scores 0),
\* and two internal tasks are tied exactly when they are equally far from
\* the two ends of the chain.
C9_ChainScores ==
    (pc = "done" /\ IsChain(G)) =>
        LET n == Len(G.nodes)
            bc == betweenness_centrality
        IN /\ \A v \in NodeSet(G) :
                 ScoreEq(bc[v], [num |-> ChainPos(G, v) * (n - 1 - ChainPos(G, v)),
                                 den |-> (n - 1) * (n - 2)])
           /\ \A v \in ChainInternal(G), e \in ChainEnds(G) :
                 bc[e].num = 0 /\ ScoreLess(bc[e], bc[v])
           /\ \A v, w \in ChainInternal(G) :
                 ScoreEq(bc[v], bc[w]) <=>
                    (ChainPos(G, v) = ChainPos(G, w)
                       \/ ChainPos(G, v) + ChainPos(G, w) = n - 1)

C9_Witness ==
    /\ pc = "done"
    /\ IsChain(G)
    /\ Len(G.nodes) >= 5
    /\ \E v, w \in ChainInternal(G) :
          ScoreLess(betweenness_centrality[v], betweenness_centrality[w])

\* the list out is a breadth-first edge list of g from start
BfsOrder(g, start, out) ==
    LET D == BfsDist(g, start)
        target(k) == out[k][2]
    IN /\ \A k \in 1..Len(out) : out[k] \in EdgeSet(g)
       /\ {target(k) : k \in 1..Len(out)} = Reachable(g, start) \ {start}
       /\ \A k, l \in 1..Len(out) : target(k) = target(l) => k = l
       /\ \A k \in 1..Len(out) :
             out[k][1] = start \/ \E l \in 1..(k - 1) : out[k][1] = target(l)
       /\ \A k \in 1..(Len(out) - 1) : D[target(k)] <= D[target(k + 1)]

\* C10: perform_bfs(G, start) returns edges of G in breadth-first order from
\* start: every task reachable from start other than start is the target of
\* exactly one returned edge, no unreachable task appears, the source of an
\* edge is start or the target of an earlier edge, the targets are in
\* non-decreasing distance from start; the call does not modify G.
C10_BreadthFirst ==
    [][(pc = "bfs" /\ pc' = "centrality") =>
          (G' = G /\ BfsOrder(G, "Start", bfs_path'))]_vars

C10_Witness ==
    /\ pc = "centrality"
    /\ Len(bfs_path) >= 3
    /\ bfs_path[3][1] # "Start"
    /\ Range(bfs_path) # EdgeSet(G)

====
